---- MODULE Spec2Model ----
(***************************************************************************)
(* Entity records persisted to CSV and XML and read back                   *)
(* (principes_1_2.py, principles_345.py, five_principles.py).              *)
(*                                                                         *)
(* A Python value is a record [t, n, s]: an int carries n, a str carries   *)
(* its text s, None carries neither.  A text is a sequence of tokens: each *)
(* digit is a token of its own, so that isdigit(), int() and str() work    *)
(* digit by digit; a run of other characters is one token.  The unused     *)
(* component is fixed so that equality of two values is Python's ==: 1 and *)
(* "1" are different values.                                               *)
(***************************************************************************)
EXTENDS Integers, Sequences, FiniteSets, TLC

VARIABLES
    script,        \* the script that is run: each has its own classes, handlers and files
    entities,      \* the list the script builds and passes to the handlers
    csvFile,       \* the file at the CSV handler's path
    xmlFile,       \* the file at the XML handler's path
    csv_entities,  \* the script's variable: the list last read from the CSV file
    xml_entities,  \* the script's variable: the list last parsed from the XML file
    matches,       \* the lines the last call printed
    last           \* the last call: what it was passed, raised and returned

vars == <<script, entities, csvFile, xmlFile, csv_entities, xml_entities, matches, last>>

\* Longest `entities` list the scripts are run on.
MaxLen == 2

----------------------------------------------------------------------------
(* Python values *)

IntV(n) == [t |-> "int", n |-> n, s |-> <<>>]
StrV(s) == [t |-> "str", n |-> 0, s |-> s]
NoneV == [t |-> "none", n |-> 0, s |-> <<>>]

\* The characters int() accepts as decimal digits, in order of value.
DecimalDigits == <<"0", "1", "2", "3", "4", "5", "6", "7", "8", "9">>

IsDecimalChar(c) == \E i \in 1..Len(DecimalDigits) : DecimalDigits[i] = c

DigitValue(c) == (CHOOSE i \in 1..Len(DecimalDigits) : DecimalDigits[i] = c) - 1

\* str.isdigit() is true of more characters than int() accepts: SUP2 stands
\* for U+00B2 SUPERSCRIPT TWO, a digit to isdigit() and no decimal to int().
IsDigitChar(c) == IsDecimalChar(c) \/ c = "SUP2"

\* str(n) for n >= 0
RECURSIVE Str(_)
Str(n) == IF n < 10 THEN <<DecimalDigits[n + 1]>>
          ELSE Str(n \div 10) \o <<DecimalDigits[(n % 10) + 1]>>

\* s.isdigit(): non-empty and every character a digit
IsDigit(s) == s # <<>> /\ \A i \in 1..Len(s) : IsDigitChar(s[i])

\* whether int(s) returns (s is known to satisfy isdigit())
IntParses(s) == s # <<>> /\ \A i \in 1..Len(s) : IsDecimalChar(s[i])

\* int(s) for a string of decimal digits
RECURSIVE ParseInt(_)
ParseInt(s) == IF s = <<>> THEN 0
               ELSE 10 * ParseInt(SubSeq(s, 1, Len(s) - 1)) + DigitValue(s[Len(s)])

\* str(v) as csv.writer and str() apply it to a field
StrOf(v) == CASE v.t = "int" -> Str(v.n)
              [] v.t = "str" -> v.s
              [] OTHER -> <<>>

----------------------------------------------------------------------------
(* Entity model *)

Entity(id, name) == [kind |-> "Entity", entity_id |-> id, name |-> name, attr |-> NoneV]
Vehicle(id, name, model) == [kind |-> "Vehicle", entity_id |-> id, name |-> name, attr |-> model]
Pedestrian(id, name, age) == [kind |-> "Pedestrian", entity_id |-> id, name |-> name, attr |-> age]
LightStateAction(id, name, light) ==
    [kind |-> "LightStateAction", entity_id |-> id, name |-> name, attr |-> light]
\* an object of the list that is no Entity: it has no entity_id, no to_csv_row
Foreign == [kind |-> "object", entity_id |-> NoneV, name |-> NoneV, attr |-> NoneV]

IsVariant(e) == e.kind \in {"Vehicle", "Pedestrian", "LightStateAction"}

\* The entities principes_1_2.py and principles_345.py are run on: their own
\* (an int id, a non-digit model, an int age) and the edge values of each
\* field: a str id that prints like an int id, an empty name, an all-digit
\* model with a leading zero, a model of a non-decimal digit, an empty model,
\* age 0, the base class (it has only the two base fields) and a non-Entity.
Universe ==
    { Vehicle(IntV(1), StrV(<<"a">>), StrV(<<"X">>)),
      Vehicle(StrV(<<"1">>), StrV(<<"a">>), StrV(<<"0", "7">>)),
      Vehicle(StrV(<<"b">>), StrV(<<"a">>), StrV(<<"SUP2">>)),
      Vehicle(IntV(2), StrV(<<>>), StrV(<<>>)),
      Pedestrian(IntV(2), StrV(<<"b">>), IntV(30)),
      Pedestrian(IntV(1), StrV(<<"b">>), IntV(0)),
      Entity(IntV(2), StrV(<<"a">>)),
      Foreign }

\* The entities five_principles.py is run on
LightUniverse ==
    { LightStateAction(IntV(1), StrV(<<"a">>), StrV(<<"myLights">>)),
      LightStateAction(StrV(<<"1">>), StrV(<<>>), StrV(<<>>)),
      Entity(IntV(2), StrV(<<"a">>)),
      Foreign }

Scripts == {"principes_1_2", "principles_345", "five_principles"}

UniverseOf(sc) == IF sc = "five_principles" THEN LightUniverse ELSE Universe

Lists(sc) == UNION {[1..n -> UniverseOf(sc)] : n \in 0..MaxLen}

\* whether e is an instance of the script's Entity classes: only those have
\* entity_id, to_csv_row and to_xml_element
IsEntity(e) == e.kind # "object"

\* index of the first element of es that is no Entity, Len(es) + 1 if none
FirstNonEntity(es) ==
    IF \A i \in 1..Len(es) : IsEntity(es[i]) THEN Len(es) + 1
    ELSE CHOOSE i \in 1..Len(es) : ~IsEntity(es[i]) /\ \A j \in 1..(i - 1) : IsEntity(es[j])

\* the record of the last call: its name, the list it was passed (<<>> if
\* none), the exception it raised ("none" if it returned), the list it
\* returned (<<>> if it returned nothing) and, for a save, the file that was
\* at the path when it was called
Call(op, arg, exc, ret) == [op |-> op, arg |-> arg, exc |-> exc, ret |-> ret, old |-> <<>>]
SaveCall(op, arg, exc, old) == [op |-> op, arg |-> arg, exc |-> exc, ret |-> <<>>, old |-> old]

----------------------------------------------------------------------------
(* CSV codec and handler *)

\* the slip of a subclass that puts its own field before the base fields
to_csv_row_own_first(e) == IF e.kind = "Entity" THEN <<e.entity_id, e.name>>
                           ELSE <<e.attr, e.entity_id, e.name>>

to_csv_row(e) == IF e.kind = "Entity" THEN <<e.entity_id, e.name>>
                 ELSE <<e.entity_id, e.name, e.attr>>

\* csv.writer.writerow: every field is written as its str()
writerow(row) == [i \in 1..Len(row) |-> StrOf(row[i])]

CsvHeader == <<<<"Entity ID">>, <<"Name">>, <<"Model/Age">>>>
LightCsvHeader == <<<<"Entity ID">>, <<"Name">>, <<"UserDefinedLightType">>>>

\* the slip of opening in mode 'a': the old rows stay
OpenForAppend(old) == old

\* open(path, mode='w'): the rows the file holds once it is open
OpenForWrite(old) == <<>>

AbsentFile == [exists |-> FALSE, rows |-> <<>>]

\* a file another program left at the path: a header and a row of 4 columns
ForeignCsvFile == [exists |-> TRUE,
                   rows |-> <<CsvHeader, <<<<"9">>, <<"z">>, <<"Q">>, <<"extra">>>>>>]

\* the rows written for es: all of them, or those before the first element
\* without to_csv_row, at which the loop raises
CsvRowsWritten(es) ==
    [i \in 1..(FirstNonEntity(es) - 1) |-> writerow(to_csv_row(es[i]))]

WriteCsv(op, header, es) ==
    \E opened \in BOOLEAN :
       IF ~opened
       THEN /\ last' = SaveCall(op, es, "OSError", csvFile)
            /\ UNCHANGED csvFile
       ELSE /\ csvFile' = [exists |-> TRUE,
                           rows |-> OpenForWrite(csvFile.rows) \o <<header>> \o CsvRowsWritten(es)]
            /\ last' = SaveCall(op, es, IF FirstNonEntity(es) <= Len(es)
                                         THEN "AttributeError" ELSE "none", csvFile)

save_entities_to_csv ==
    /\ script = "principes_1_2"
    /\ WriteCsv("save_entities_to_csv", CsvHeader, entities)
    /\ matches' = <<>>
    /\ UNCHANGED <<script, entities, xmlFile, csv_entities, xml_entities>>

\* the slip of unpacking row[:3]: a longer row passes
RowDecodesPrefix(row) == Len(row) >= 3 /\ (IsDigit(row[3]) => IntParses(row[3]))

\* whether a row passes the reader's loop: it unpacks into three names, and
\* int() takes the third if isdigit() is true of it; ValueError if not
RowDecodes(row) == Len(row) = 3 /\ (IsDigit(row[3]) => IntParses(row[3]))

\* the entity the loop appends for a row that passes
DecodeRow(row) ==
    IF IsDigit(row[3])
    THEN Pedestrian(StrV(row[1]), StrV(row[2]), IntV(ParseInt(row[3])))
    ELSE Vehicle(StrV(row[1]), StrV(row[2]), StrV(row[3]))

\* the slip of not skipping the header row
KeepHeader(rows) == rows

\* next(reader): the rows left once the header row has been skipped
SkipHeader(rows) == Tail(rows)

\* the return of read_entities_from_csv on a file that holds `rows`
ReadCsvResult(rows) ==
    IF rows = <<>> THEN Call("read_entities_from_csv", <<>>, "StopIteration", <<>>)
    ELSE LET data == SkipHeader(rows) IN
         IF \A i \in 1..Len(data) : RowDecodes(data[i])
         THEN Call("read_entities_from_csv", <<>>, "none",
                   [i \in 1..Len(data) |-> DecodeRow(data[i])])
         ELSE Call("read_entities_from_csv", <<>>, "ValueError", <<>>)

read_entities_from_csv ==
    /\ script = "principes_1_2"
    /\ last' = IF csvFile.exists THEN ReadCsvResult(csvFile.rows)
               ELSE Call("read_entities_from_csv", <<>>, "FileNotFoundError", <<>>)
    /\ csv_entities' = IF last'.exc = "none" THEN [bound |-> TRUE, val |-> last'.ret]
                       ELSE csv_entities
    /\ matches' = <<>>
    /\ UNCHANGED <<script, entities, csvFile, xmlFile, xml_entities>>

\* CSVHandler.save of principles_345.py, reached through EntitySaver.save on
\* each entity of the list in turn
csv_save ==
    /\ script = "principles_345"
    /\ \E i \in 1..Len(entities) : WriteCsv("csv_save", CsvHeader, <<entities[i]>>)
    /\ matches' = <<>>
    /\ UNCHANGED <<script, entities, xmlFile, csv_entities, xml_entities>>

\* CSVHandler.save of five_principles.py: the same, under its own header
light_csv_save ==
    /\ script = "five_principles"
    /\ \E i \in 1..Len(entities) : WriteCsv("light_csv_save", LightCsvHeader, <<entities[i]>>)
    /\ matches' = <<>>
    /\ UNCHANGED <<script, entities, xmlFile, csv_entities, xml_entities>>

----------------------------------------------------------------------------
(* XML codec and handler *)

\* A file holds the children of its root element Entities.  An element is
\* [tag, id, children], a child [tag, text, light]: light is the attribute
\* userDefinedLightType of the UserDefinedLight below it, None if there is none.
Child(tag, text, light) == [tag |-> tag, text |-> text, light |-> light]
Element(tag, id, children) == [tag |-> tag, id |-> id, children |-> children]

\* the text an element is parsed with after it was written with text s: an
\* empty text is written as an empty element, which has no text
WrittenText(s) == IF s = <<>> THEN NoneV ELSE StrV(s)

HasChild(el, tag) == \E i \in 1..Len(el.children) : el.children[i].tag = tag

\* el.find(tag): the first child with that tag
Find(el, tag) ==
    el.children[CHOOSE i \in 1..Len(el.children) :
                   /\ el.children[i].tag = tag
                   /\ \A j \in 1..(i - 1) : el.children[j].tag # tag]

\* Entity.to_xml_element
BaseElement(e) ==
    Element("Entity", StrV(StrOf(e.entity_id)),
            <<Child("Name", WrittenText(StrOf(e.name)), NoneV)>>)

WithChild(el, c) == [el EXCEPT !.children = @ \o <<c>>]

\* the subclasses' to_xml_element (principles_345.py, five_principles.py)
to_xml_element(e) ==
    CASE e.kind = "Vehicle" ->
           WithChild(BaseElement(e), Child("Model", WrittenText(StrOf(e.attr)), NoneV))
      [] e.kind = "Pedestrian" ->
           WithChild(BaseElement(e), Child("Age", WrittenText(StrOf(e.attr)), NoneV))
      [] e.kind = "LightStateAction" ->
           WithChild(BaseElement(e), Child("LightStateAction", NoneV, e.attr))
      [] OTHER -> BaseElement(e)

\* the element create_sample_xml builds: isinstance chooses the child, and
\* an entity that is neither a Vehicle nor a Pedestrian gets none
SampleElement(e) ==
    CASE e.kind = "Vehicle" ->
           WithChild(BaseElement(e), Child("Model", WrittenText(StrOf(e.attr)), NoneV))
      [] e.kind = "Pedestrian" ->
           WithChild(BaseElement(e), Child("Age", WrittenText(StrOf(e.attr)), NoneV))
      [] OTHER -> BaseElement(e)

AbsentXml == [exists |-> FALSE, root |-> <<>>]

\* a file an earlier run left at the handler's path: one Vehicle
OldXmlFile ==
    [exists |-> TRUE,
     root |-> <<Element("Entity", StrV(<<"9">>),
                        <<Child("Name", StrV(<<"z">>), NoneV),
                          Child("Model", StrV(<<"Q">>), NoneV)>>)>>]

\* scenario.xml, the file the script runs parse_xml on: a PrivateAction with
\* a light.  No handler writes it.
ScenarioXml ==
    [exists |-> TRUE,
     root |-> <<Element("PrivateAction", NoneV,
                        <<Child("LightStateAction", NoneV, StrV(<<"myLights">>))>>)>>]

\* the file once the tree has been written to the path
WriteTree(old, root) == [exists |-> TRUE, root |-> root]

\* create_sample_xml: the tree is built first (a non-Entity raises there),
\* then written twice, plainly and pretty-printed; both hold the same tree
create_sample_xml ==
    /\ script = "principes_1_2"
    /\ IF FirstNonEntity(entities) <= Len(entities)
       THEN /\ last' = SaveCall("create_sample_xml", entities, "AttributeError", xmlFile)
            /\ UNCHANGED xmlFile
       ELSE \E opened \in 0..2 :
              /\ xmlFile' = IF opened = 0 THEN xmlFile
                            ELSE WriteTree(xmlFile,
                                   [i \in 1..Len(entities) |-> SampleElement(entities[i])])
              /\ last' = SaveCall("create_sample_xml", entities,
                                  IF opened = 2 THEN "none" ELSE "OSError", xmlFile)
    /\ matches' = <<>>
    /\ UNCHANGED <<script, entities, csvFile, csv_entities, xml_entities>>

\* XMLHandler.save, reached through EntitySaver.save on each entity in turn
xml_save ==
    /\ script \in {"principles_345", "five_principles"}
    /\ \E i \in 1..Len(entities) :
         IF ~IsEntity(entities[i])
         THEN /\ last' = SaveCall("xml_save", <<entities[i]>>, "AttributeError", xmlFile)
              /\ UNCHANGED xmlFile
         ELSE \E opened \in BOOLEAN :
                /\ xmlFile' = IF opened THEN WriteTree(xmlFile, <<to_xml_element(entities[i])>>)
                              ELSE xmlFile
                /\ last' = SaveCall("xml_save", <<entities[i]>>,
                                  IF opened THEN "none" ELSE "OSError", xmlFile)
    /\ matches' = <<>>
    /\ UNCHANGED <<script, entities, csvFile, csv_entities, xml_entities>>

\* the elements root.findall('.//' + tag) yields, in document order
FindAll(root, tag) ==
    LET F[i \in 0..Len(root)] ==
          IF i = 0 THEN <<>>
          ELSE IF root[i].tag = tag THEN F[i - 1] \o <<root[i]>> ELSE F[i - 1]
    IN F[Len(root)]

ElementDecodes(el) == HasChild(el, "Model") \/ HasChild(el, "Age")

\* one element of parse_entities_from_xml's loop
DecodeElement(el) ==
    IF HasChild(el, "Model")
    THEN Vehicle(el.id, Find(el, "Name").text, Find(el, "Model").text)
    ELSE Pedestrian(el.id, Find(el, "Name").text, Find(el, "Age").text)

ParseXmlResult(root) ==
    LET els == FindAll(root, "Entity") IN
    IF \A i \in 1..Len(els) : ElementDecodes(els[i])
    THEN Call("parse_entities_from_xml", <<>>, "none", [i \in 1..Len(els) |-> DecodeElement(els[i])])
    ELSE Call("parse_entities_from_xml", <<>>, "AttributeError", <<>>)

parse_entities_from_xml ==
    /\ script = "principes_1_2"
    /\ last' = IF xmlFile.exists THEN ParseXmlResult(xmlFile.root)
               ELSE Call("parse_entities_from_xml", <<>>, "FileNotFoundError", <<>>)
    /\ xml_entities' = IF last'.exc = "none" THEN [bound |-> TRUE, val |-> last'.ret]
                       ELSE xml_entities
    /\ matches' = <<>>
    /\ UNCHANGED <<script, entities, csvFile, xmlFile, csv_entities>>

\* parse_xml of five_principles.py: one LightStateAction per PrivateAction
LightOf(el) == Find(el, "LightStateAction").light

ParseLightResult(doc) ==
    IF ~doc.exists THEN Call("parse_xml", <<>>, "FileNotFoundError", <<>>)
    ELSE LET els == FindAll(doc.root, "PrivateAction") IN
         IF \A i \in 1..Len(els) : HasChild(els[i], "LightStateAction")
         THEN Call("parse_xml", <<>>, "none",
                   [i \in 1..Len(els) |->
                      LightStateAction(IntV(1), StrV(<<"LightStateAction">>), LightOf(els[i]))])
         ELSE Call("parse_xml", <<>>, "AttributeError", <<>>)

\* the script parses scenario.xml; the function takes any path, the
\* handler's too
parse_xml ==
    /\ script = "five_principles"
    /\ \E doc \in {ScenarioXml, xmlFile} : last' = ParseLightResult(doc)
    /\ matches' = <<>>
    /\ UNCHANGED <<script, entities, csvFile, xmlFile, csv_entities, xml_entities>>

----------------------------------------------------------------------------
(* Comparator *)

\* the slip of comparing the ids only
IsMatchOnId(a, b) == a.entity_id = b.entity_id

IsMatch(a, b) == a.entity_id = b.entity_id /\ a.name = b.name

\* the lines compare_entities prints, in the order it prints them
RECURSIVE MatchesOfOne(_, _)
MatchesOfOne(a, bs) ==
    IF bs = <<>> THEN <<>>
    ELSE (IF IsMatch(a, Head(bs)) THEN <<[name |-> a.name, id |-> a.entity_id]>> ELSE <<>>)
         \o MatchesOfOne(a, Tail(bs))

RECURSIVE MatchesOf(_, _)
MatchesOf(as, bs) ==
    IF as = <<>> THEN <<>>
    ELSE MatchesOfOne(Head(as), bs) \o MatchesOf(Tail(as), bs)

\* the script's call, on the two lists it has read
compare_entities ==
    /\ script = "principes_1_2"
    /\ csv_entities.bound /\ xml_entities.bound
    /\ matches' = MatchesOf(csv_entities.val, xml_entities.val)
    /\ last' = Call("compare_entities", <<>>, "none", <<>>)
    /\ UNCHANGED <<script, entities, csvFile, xmlFile, csv_entities, xml_entities>>

----------------------------------------------------------------------------

Init ==
    /\ script \in Scripts
    /\ entities \in Lists(script)
    /\ csvFile \in {AbsentFile, ForeignCsvFile}
    /\ xmlFile \in {AbsentXml, OldXmlFile}
    /\ csv_entities = [bound |-> FALSE, val |-> <<>>]
    /\ xml_entities = [bound |-> FALSE, val |-> <<>>]
    /\ matches = <<>>
    /\ last = Call("init", <<>>, "none", <<>>)

Next ==
    \/ save_entities_to_csv
    \/ read_entities_from_csv
    \/ csv_save
    \/ light_csv_save
    \/ create_sample_xml
    \/ xml_save
    \/ parse_entities_from_xml
    \/ parse_xml
    \/ compare_entities

Spec == Init /\ [][Next]_vars

----------------------------------------------------------------------------
(* What the claims speak of *)

Returned == last.exc = "none"

\* the CSV file is the one save_entities_to_csv leaves for the whole list
CsvHoldsEntities ==
    /\ csvFile.exists
    /\ FirstNonEntity(entities) > Len(entities)
    /\ csvFile.rows = <<CsvHeader>> \o CsvRowsWritten(entities)

\* the XML file is the one create_sample_xml, or save, leaves for the whole list
XmlHoldsEntities ==
    /\ xmlFile.exists
    /\ \A i \in 1..Len(entities) : IsEntity(entities[i])
    /\ \/ xmlFile.root = [i \in 1..Len(entities) |-> SampleElement(entities[i])]
       \/ xmlFile.root = [i \in 1..Len(entities) |-> to_xml_element(entities[i])]

\* the precondition of the CSV round trip
CsvRoundTrips(e) ==
    \/ e.kind = "Vehicle" /\ e.attr.t = "str" /\ ~IsDigit(e.attr.s)
    \/ e.kind = "Pedestrian" /\ e.attr.t = "int" /\ e.attr.n >= 0

\* C1: a list of Vehicles, Pedestrians and LightStateActions written by the
\* XML handler and parsed back is the list that was written, field by field
\* and in order.
C1_XmlRoundTrip ==
    ( /\ last.op = "parse_entities_from_xml"
      /\ XmlHoldsEntities
      /\ \A i \in 1..Len(entities) : IsVariant(entities[i]) )
    => Returned /\ last.ret = entities

\* C2: a list of Vehicles with a model that is not all digits and of
\* Pedestrians with a non-negative int age, saved to CSV and read back at
\* once, is the list that was saved, record by record and in order.
C2_CsvRoundTrip ==
    ( /\ last.op = "read_entities_from_csv"
      /\ CsvHoldsEntities
      /\ \A i \in 1..Len(entities) : CsvRoundTrips(entities[i]) )
    => Returned /\ last.ret = entities

\* C3: after a save call that returned, the file holds the header or root and
\* the records of that call and nothing else, whatever it held before.
C3_SaveRewrites ==
    /\ (last.op \in {"save_entities_to_csv", "csv_save", "light_csv_save"} /\ Returned)
       => /\ csvFile.exists
          /\ csvFile.rows =
               <<IF last.op = "light_csv_save" THEN LightCsvHeader ELSE CsvHeader>>
               \o [i \in 1..Len(last.arg) |-> writerow(to_csv_row(last.arg[i]))]
    /\ (last.op = "create_sample_xml" /\ Returned)
       => /\ xmlFile.exists
          /\ xmlFile.root = [i \in 1..Len(last.arg) |-> SampleElement(last.arg[i])]
    /\ (last.op = "xml_save" /\ Returned)
       => /\ xmlFile.exists
          /\ xmlFile.root = <<to_xml_element(last.arg[1])>>

\* a save has returned on a file that held two rows of another content
C3_Witness ==
    /\ last.op = "csv_save" /\ Returned
    /\ last.old.exists /\ Len(last.old.rows) = 2
    /\ last.old.rows[2] # csvFile.rows[2]

\* C4: a save call that raises leaves the file as it was or leaves a complete
\* new file (the header or root and one record per element), never less.
C4_NoPartialFile ==
    /\ ( /\ last.op \in {"save_entities_to_csv", "csv_save", "light_csv_save"}
         /\ ~Returned )
       => \/ csvFile = last.old
          \/ Len(csvFile.rows) = 1 + Len(last.arg)
    /\ ( /\ last.op \in {"create_sample_xml", "xml_save"}
         /\ ~Returned )
       => \/ xmlFile = last.old
          \/ Len(xmlFile.root) = Len(last.arg)

C6_DigitHeuristic ==
    ( /\ last.op = "read_entities_from_csv"
      /\ csvFile.exists /\ csvFile.rows # <<>>
      /\ \A i \in 2..Len(csvFile.rows) : Len(csvFile.rows[i]) = 3 )
    => /\ Returned
       /\ Len(last.ret) = Len(csvFile.rows) - 1
       /\ \A i \in 1..Len(last.ret) :
            LET col == csvFile.rows[i + 1][3] IN
            IF IsDigit(col)
            THEN last.ret[i].kind = "Pedestrian" /\ last.ret[i].attr = IntV(ParseInt(col))
            ELSE last.ret[i].kind = "Vehicle" /\ last.ret[i].attr = StrV(col)

\* the pairs compare_entities is to report, as positions in the two lists
MatchPairs ==
    {p \in (1..Len(csv_entities.val)) \X (1..Len(xml_entities.val)) :
        /\ csv_entities.val[p[1]].entity_id = xml_entities.val[p[2]].entity_id
        /\ csv_entities.val[p[1]].name = xml_entities.val[p[2]].name}

\* the place of a pair in the nested order, the first list outermost
Rank(p) ==
    Cardinality({q \in MatchPairs : q[1] < p[1] \/ (q[1] = p[1] /\ q[2] <= p[2])})

\* C7: compare_entities prints one line per pair that agrees on id and on
\* name, repeated ids included, none for a pair that agrees on one of them
\* only, in nested order.
C7_Compare ==
    last.op = "compare_entities"
    => /\ Returned
       /\ Len(matches) = Cardinality(MatchPairs)
       /\ \A p \in MatchPairs :
            matches[Rank(p)] = [name |-> csv_entities.val[p[1]].name,
                                id |-> csv_entities.val[p[1]].entity_id]

\* compared lists in which an id is repeated under two names: two lines are
\* printed, and the two pairs that agree on the id only give none
C7_Witness ==
    /\ last.op = "compare_entities"
    /\ Len(matches) = 2 /\ matches[1].id = matches[2].id /\ matches[1].name # matches[2].name
    /\ \E i \in 1..Len(csv_entities.val), j \in 1..Len(xml_entities.val) :
         /\ csv_entities.val[i].entity_id = xml_entities.val[j].entity_id
         /\ csv_entities.val[i].name # xml_entities.val[j].name

\* C8: saving the empty list leaves a header-only CSV file and an Entities
\* root without children, and reading either back returns the empty list.
C8_EmptyCollection ==
    /\ (last.op = "save_entities_to_csv" /\ Returned /\ last.arg = <<>>)
       => csvFile.exists /\ csvFile.rows = <<CsvHeader>>
    /\ (last.op = "create_sample_xml" /\ Returned /\ last.arg = <<>>)
       => xmlFile.exists /\ xmlFile.root = <<>>
    /\ (last.op = "read_entities_from_csv" /\ csvFile.exists /\ csvFile.rows = <<CsvHeader>>)
       => Returned /\ last.ret = <<>> /\ csv_entities = [bound |-> TRUE, val |-> <<>>]
    /\ (last.op = "parse_entities_from_xml" /\ xmlFile.exists /\ xmlFile.root = <<>>)
       => Returned /\ last.ret = <<>> /\ xml_entities = [bound |-> TRUE, val |-> <<>>]

\* the empty list has been saved to both files and read back from both
C8_Witness ==
    /\ entities = <<>>
    /\ csvFile.exists /\ csvFile.rows = <<CsvHeader>>
    /\ xmlFile.exists /\ xmlFile.root = <<>>
    /\ csv_entities.bound /\ xml_entities.bound
    /\ last.op = "parse_entities_from_xml"

HasBadRow ==
    \E i \in 2..Len(csvFile.rows) : Len(csvFile.rows[i]) # 3

\* C9: reading a CSV file with a data row of fewer or more than 3 columns
\* raises (ValueError), and no list is returned, not even the rows before it.
C9_BadRowFailsLoad ==
    (last.op = "read_entities_from_csv" /\ csvFile.exists /\ HasBadRow)
    => last.exc = "ValueError" /\ last.ret = <<>>

\* a read has met a row of 2 columns after a row that decodes
C9_Witness ==
    /\ last.op = "read_entities_from_csv"
    /\ Len(csvFile.rows) = 3
    /\ Len(csvFile.rows[2]) = 3 /\ Len(csvFile.rows[3]) = 2
    /\ last.exc = "ValueError"

DistinctIds ==
    \A i, j \in 1..Len(entities) : i # j => entities[i].entity_id # entities[j].entity_id

\* C10: a list of round-tripping Vehicles and Pedestrians with distinct ids,
\* saved to CSV and to XML, read back from both and compared, gives one match
\* per entity.
C10_CrossFormat ==
    ( /\ last.op = "compare_entities"
      /\ DistinctIds
      /\ \A i \in 1..Len(entities) : CsvRoundTrips(entities[i])
      /\ CsvHoldsEntities /\ XmlHoldsEntities
      /\ csv_entities.val = ReadCsvResult(csvFile.rows).ret
      /\ xml_entities.val = ParseXmlResult(xmlFile.root).ret )
    => /\ Len(matches) = Len(entities)
       /\ \A i \in 1..Len(entities) :
            matches[i].id = StrV(StrOf(entities[i].entity_id))

====
